---- MODULE Spec2Model ----
(***************************************************************************)
(* Commitment Ledger / Allocation Ledger of contracts/commitment_core      *)
(* (src/contracts/commitment_core/src/lib.rs) together with the Ownership  *)
(* Token Registry (contracts/commitment_nft, of which only tests.rs is     *)
(* present).                                                               *)
(*                                                                         *)
(* Contract storage is modelled as functions whose DOMAIN is the set of    *)
(* keys that are present, so has(key) is key \in DOMAIN and get(key) of an *)
(* absent key is the unwrap_or default of the helper that reads it.        *)
(*                                                                         *)
(* Every entry point is one action.  A panic aborts the invocation: the    *)
(* action leaves the storage alone and records the panic in result.err.    *)
(* result.xfer is the call the invocation made to the asset contract.      *)
(***************************************************************************)
EXTENDS Integers, Sequences, FiniteSets, TLC

(***************************************************************************)
(* Bounds of the model.                                                    *)
(***************************************************************************)
\* largest sum of the stored CommitmentBalances the model lets deallocate build up
MaxBalance == 2
\* largest number of Allocation records kept over all commitments
MaxAllocs == 2
\* tokens the registry mints
MaxTokens == 2

(***************************************************************************)
(* Values.                                                                 *)
(***************************************************************************)
Address == {"GA", "GB"}
Pools == {"POOL"}
\* the addresses the admin adds or removes as allocator; GA is never added
Allocators == {"GB"}
Asset == "ASSET"
ContractAddress == "CORE"
CommitmentIds == {"c1", "c2"}
\* amounts passed to allocate / deallocate: invalid, and two valid ones
Amounts == {0, 1, 2}
Statuses == {"active", "settled", "violated", "early_exit"}

\* seconds of one day (30 days are 2592000 seconds in the fixtures)
DaySeconds == 24 * 60 * 60

VARIABLES
    initialized,   \* DataKey::InitFlag
    admin,         \* DataKey::Admin, a function on {} or {"admin"}
    allocators,    \* DataKey::AuthorizedAllocator(addr) -> bool
    commitments,   \* DataKey::Commitment(id) -> Commitment
    balances,      \* DataKey::CommitmentBalance(id) -> i128
    trackings,     \* DataKey::AllocationTracking(id) -> AllocationTracking
    tokens,        \* Ownership Token Registry: token id -> token
    nft,           \* Ownership Token Registry: init flag, admin, minters, counter
    granted,       \* the addresses whose latest admin action was an add
    now,           \* e.ledger().timestamp()
    issued,        \* the ids create_commitment has returned so far
    result         \* outcome of the last invocation

vars == <<initialized, admin, allocators, commitments, balances, trackings,
          tokens, nft, granted, now, issued, result>>

core_store == <<initialized, admin, allocators, commitments, balances, trackings>>

NoXfer == [from |-> "none", to |-> "none", amount |-> 0]

Outcome(op, err, ret, xfer) == [op |-> op, err |-> err, ret |-> ret, xfer |-> xfer]

(***************************************************************************)
(* Storage helpers.                                                        *)
(***************************************************************************)
has_admin == "admin" \in DOMAIN admin

get_admin == admin["admin"]

is_authorized_allocator(allocator) ==
    IF allocator \in DOMAIN allocators THEN allocators[allocator] ELSE FALSE

set_authorized_allocator(allocator, authorized) ==
    [a \in (DOMAIN allocators) \cup {allocator} |->
        IF a = allocator THEN authorized ELSE allocators[a]]

has_commitment(commitment_id) == commitment_id \in DOMAIN commitments

get_commitment(commitment_id) == commitments[commitment_id]

get_commitment_balance(commitment_id) ==
    IF commitment_id \in DOMAIN balances THEN balances[commitment_id] ELSE 0

\* set_commitment_balance under one key for all commitments
set_commitment_balance_shared(commitment_id, balance) ==
    [c \in (DOMAIN balances) \cup {commitment_id} |-> balance]

set_commitment_balance(commitment_id, balance) ==
    [c \in (DOMAIN balances) \cup {commitment_id} |->
        IF c = commitment_id THEN balance ELSE balances[c]]

EmptyTracking == [total_allocated |-> 0, allocations |-> <<>>]

get_allocation_tracking(commitment_id) ==
    IF commitment_id \in DOMAIN trackings THEN trackings[commitment_id] ELSE EmptyTracking

set_allocation_tracking(commitment_id, tracking) ==
    [c \in (DOMAIN trackings) \cup {commitment_id} |->
        IF c = commitment_id THEN tracking ELSE trackings[c]]

is_initialized == initialized

\* Number of Allocation records held over all commitments (bounds the model).
RECURSIVE RecordCount(_)
RecordCount(ids) ==
    IF ids = {} THEN 0
    ELSE LET c == CHOOSE x \in ids : TRUE
         IN Len(trackings[c].allocations) + RecordCount(ids \ {c})

\* Sum of the stored balances of all commitments (bounds the model).
RECURSIVE BalanceSum(_)
BalanceSum(ids) ==
    IF ids = {} THEN 0
    ELSE LET c == CHOOSE x \in ids : TRUE
         IN balances[c] + BalanceSum(ids \ {c})

(***************************************************************************)
(* Records the tests write into storage before the operation under test.   *)
(* create_commitment stores nothing, so this is the only way a Commitment  *)
(* record comes to exist.                                                  *)
(***************************************************************************)
TestRules(days, ctype) ==
    [duration_days |-> days, max_loss_percent |-> 20, commitment_type |-> ctype,
     early_exit_penalty |-> 5, min_fee_threshold |-> 0]

create_test_commitment(id, owner, token, amount, value, status) ==
    [commitment_id |-> id, owner |-> owner, nft_token_id |-> token,
     rules |-> TestRules(1, "balanced"), amount |-> amount, asset_address |-> Asset,
     created_at |-> 0, expires_at |-> DaySeconds, current_value |-> value,
     status |-> status]

\* c1: principal 5, any status; while active and alone its value is 4 (a loss
\* of exactly max_loss_percent = 20) or 3 (one unit below that), beside c2 it
\* is 6 (a gain)
FirstFixtures ==
    {create_test_commitment("c1", "GA", 1, 5, v, "active") : v \in {3, 4}}
    \cup {create_test_commitment("c1", "GA", 1, 5, 5, s) : s \in Statuses \ {"active"}}

\* c2: principal 1, active
SecondFixtures ==
    {create_test_commitment("c2", "GB", 2, 1, 1, "active")}

SeededStorages ==
    {[c \in {"c1"} |-> f] : f \in FirstFixtures}
    \cup {[c \in CommitmentIds |-> IF c = "c1" THEN f ELSE g] :
            f \in {create_test_commitment("c1", "GA", 1, 5, 6, "active")},
            g \in SecondFixtures}

(***************************************************************************)
(* The Ownership Token Registry is a contract of its own; the Commitment   *)
(* Ledger holds the id of the linked token in nft_token_id.  Token 1, the  *)
(* token the registry hands out first, is minted and active.               *)
(***************************************************************************)
Metadata(commitment_id, duration_days, max_loss_percent, commitment_type, initial_amount, asset_address, created_at) ==
    [commitment_id |-> commitment_id, duration_days |-> duration_days,
     max_loss_percent |-> max_loss_percent, commitment_type |-> commitment_type,
     initial_amount |-> initial_amount, asset_address |-> asset_address,
     created_at |-> created_at,
     expires_at |-> created_at + duration_days * DaySeconds]

Token(owner, metadata, active) ==
    [owner |-> owner, metadata |-> metadata, is_active |-> active]

\* the token of fixture c1
SeededTokens ==
    [t \in {1} |-> Token("GA", Metadata("c1", 1, 20, "balanced", 5, Asset, 0), TRUE)]

\* The registry that holds token 1: initialized by GA, no minter added.
SeededRegistry ==
    [initialized |-> TRUE, admin |-> "GA", minters |-> {}, token_counter |-> 1]

nft_is_active(token_id) == tokens[token_id].is_active

(***************************************************************************)
(* The ledger clock: non-decreasing.  It is read at 0, before the fixtures *)
(* expire, and at the second they expire.                                  *)
(***************************************************************************)
Timestamps == {0, DaySeconds}

Tick ==
    /\ \E t \in Timestamps : t > now /\ now' = t
    /\ result' = Outcome("tick", "ok", "none", NoXfer)
    /\ UNCHANGED <<core_store, tokens, nft, granted, issued>>

Init ==
    /\ initialized = FALSE
    /\ admin = <<>>
    /\ allocators = <<>>
    /\ commitments \in SeededStorages
    /\ balances = <<>>
    /\ trackings = <<>>
    /\ tokens = SeededTokens
    /\ nft = SeededRegistry
    /\ granted = {}
    /\ now = 0
    /\ issued = {}
    /\ result = Outcome("none", "ok", "none", NoXfer)

\* An invocation that panicked with err: nothing is written.
Panic(op, err) ==
    /\ result' = Outcome(op, err, "none", NoXfer)
    /\ UNCHANGED <<core_store, tokens, nft, granted, now, issued>>

(***************************************************************************)
(* Commitment Ledger entry points.                                         *)
(***************************************************************************)
initialize(new_admin) ==
    IF is_initialized
    THEN Panic("initialize", "AlreadyInitialized")
    ELSE /\ admin' = [k \in {"admin"} |-> new_admin]
         /\ initialized' = TRUE
         /\ result' = Outcome("initialize", "ok", "none", NoXfer)
         /\ UNCHANGED <<allocators, commitments, balances, trackings, tokens, nft, granted, now, issued>>

\* The impl block defines initialize a second time, with the same signature
\* and a body of TODO comments.
initialize_stub(new_admin) ==
    /\ result' = Outcome("initialize", "ok", "none", NoXfer)
    /\ UNCHANGED <<core_store, tokens, nft, granted, now, issued>>

\* admin.require_auth(): signer is the address that authorised the invocation
add_authorized_allocator(signer, allocator) ==
    IF ~has_admin THEN Panic("add_authorized_allocator", "NoAdmin")
    ELSE IF signer /= get_admin THEN Panic("add_authorized_allocator", "AuthFailed")
    ELSE /\ allocators' = set_authorized_allocator(allocator, TRUE)
         /\ granted' = granted \cup {allocator}
         /\ result' = Outcome("add_authorized_allocator", "ok", "none", NoXfer)
         /\ UNCHANGED <<initialized, admin, commitments, balances, trackings, tokens, nft, now, issued>>

\* remove_authorized_allocator that leaves the stored flag as it is
remove_authorized_allocator_kept(signer, allocator) ==
    IF ~has_admin THEN Panic("remove_authorized_allocator", "NoAdmin")
    ELSE IF signer /= get_admin THEN Panic("remove_authorized_allocator", "AuthFailed")
    ELSE /\ allocators' = allocators
         /\ granted' = granted \ {allocator}
         /\ result' = Outcome("remove_authorized_allocator", "ok", "none", NoXfer)
         /\ UNCHANGED <<initialized, admin, commitments, balances, trackings, tokens, nft, now, issued>>

remove_authorized_allocator(signer, allocator) ==
    IF ~has_admin THEN Panic("remove_authorized_allocator", "NoAdmin")
    ELSE IF signer /= get_admin THEN Panic("remove_authorized_allocator", "AuthFailed")
    ELSE /\ allocators' = set_authorized_allocator(allocator, FALSE)
         /\ granted' = granted \ {allocator}
         /\ result' = Outcome("remove_authorized_allocator", "ok", "none", NoXfer)
         /\ UNCHANGED <<initialized, admin, commitments, balances, trackings, tokens, nft, now, issued>>

PlaceholderId == "commitment_id_placeholder"

\* The body is TODO comments and a constant return value.
create_commitment(owner, amount, asset_address, rules) ==
    /\ result' = Outcome("create_commitment", "ok", PlaceholderId, NoXfer)
    /\ issued' = issued \cup {PlaceholderId}
    /\ UNCHANGED <<core_store, tokens, nft, granted, now>>

\* The second get_commitment of the impl block: a constant record.
PlaceholderCommitment(commitment_id) ==
    [commitment_id |-> commitment_id, owner |-> "CAAA", nft_token_id |-> 0,
     rules |-> [duration_days |-> 0, max_loss_percent |-> 0,
                commitment_type |-> "placeholder", early_exit_penalty |-> 0,
                min_fee_threshold |-> 0],
     amount |-> 0, asset_address |-> "CAAA", created_at |-> 0, expires_at |-> 0,
     current_value |-> 0, status |-> "active"]

\* What get_commitment(id) can return: the stored record (none when the set is
\* empty) under the first definition, the constant record under the second.
GetCommitmentResults(commitment_id) ==
    [stored |-> IF has_commitment(commitment_id)
                THEN {get_commitment(commitment_id)} ELSE {},
     placeholder |-> PlaceholderCommitment(commitment_id)]

update_value(commitment_id, new_value) ==
    /\ result' = Outcome("update_value", "ok", "none", NoXfer)
    /\ UNCHANGED <<core_store, tokens, nft, granted, now, issued>>

check_violations(commitment_id) ==
    /\ result' = Outcome("check_violations", "ok", "false", NoXfer)
    /\ UNCHANGED <<core_store, tokens, nft, granted, now, issued>>

\* settle that marks the record settled without looking at its status
settle_unchecked(commitment_id) ==
    IF ~has_commitment(commitment_id) THEN Panic("settle", "NotFound")
    ELSE /\ commitments' = [commitments EXCEPT ![commitment_id].status = "settled"]
         /\ result' = Outcome("settle", "ok", "none", NoXfer)
         /\ UNCHANGED <<initialized, admin, allocators, balances, trackings, tokens, nft, granted, now, issued>>

settle(commitment_id) ==
    /\ result' = Outcome("settle", "ok", "none", NoXfer)
    /\ UNCHANGED <<core_store, tokens, nft, granted, now, issued>>

early_exit(commitment_id, caller) ==
    /\ result' = Outcome("early_exit", "ok", "none", NoXfer)
    /\ UNCHANGED <<core_store, tokens, nft, granted, now, issued>>

(***************************************************************************)
(* Allocation Ledger entry points.                                         *)
(***************************************************************************)
\* transfer_asset without the amount check
transfer_asset_unchecked(asset, from, to, amount) ==
    {"ok", "TransferFailed"}

\* Outcomes of transfer_asset: the amount check, then the call to the asset
\* contract, which completes or traps.
transfer_asset(asset, from, to, amount) ==
    IF amount <= 0 THEN {"InvalidAmount"} ELSE {"ok", "TransferFailed"}

\* allocate without the authorization check
allocate_unguarded(caller, commitment_id, target_pool, amount) ==
    IF ~has_commitment(commitment_id) THEN Panic("allocate", "InactiveCommitment")
    ELSE IF get_commitment(commitment_id).status /= "active"
         THEN Panic("allocate", "InactiveCommitment")
    ELSE IF get_commitment_balance(commitment_id) < amount
         THEN Panic("allocate", "InsufficientBalance")
    ELSE \E o \in transfer_asset(get_commitment(commitment_id).asset_address,
                                 ContractAddress, target_pool, amount) :
        IF o /= "ok" THEN Panic("allocate", o)
        ELSE LET balance == get_commitment_balance(commitment_id)
                 tracking == get_allocation_tracking(commitment_id)
                 allocation == [commitment_id |-> commitment_id,
                                target_pool |-> target_pool,
                                amount |-> amount, timestamp |-> now]
             IN /\ RecordCount(DOMAIN trackings) < MaxAllocs
                /\ balances' = set_commitment_balance(commitment_id, balance - amount)
                /\ trackings' = set_allocation_tracking(commitment_id,
                      [total_allocated |-> tracking.total_allocated + amount,
                       allocations |-> Append(tracking.allocations, allocation)])
                /\ result' = Outcome("allocate", "ok", "none",
                      [from |-> ContractAddress, to |-> target_pool, amount |-> amount])
                /\ UNCHANGED <<initialized, admin, allocators, commitments, tokens, nft, granted, now, issued>>

\* allocate without the status check
allocate_any_status(caller, commitment_id, target_pool, amount) ==
    IF ~is_authorized_allocator(caller) THEN Panic("allocate", "Unauthorized")
    ELSE IF ~has_commitment(commitment_id) THEN Panic("allocate", "InactiveCommitment")
    ELSE IF get_commitment_balance(commitment_id) < amount
         THEN Panic("allocate", "InsufficientBalance")
    ELSE \E o \in transfer_asset(get_commitment(commitment_id).asset_address,
                                 ContractAddress, target_pool, amount) :
        IF o /= "ok" THEN Panic("allocate", o)
        ELSE LET balance == get_commitment_balance(commitment_id)
                 tracking == get_allocation_tracking(commitment_id)
                 allocation == [commitment_id |-> commitment_id,
                                target_pool |-> target_pool,
                                amount |-> amount, timestamp |-> now]
             IN /\ RecordCount(DOMAIN trackings) < MaxAllocs
                /\ balances' = set_commitment_balance(commitment_id, balance - amount)
                /\ trackings' = set_allocation_tracking(commitment_id,
                      [total_allocated |-> tracking.total_allocated + amount,
                       allocations |-> Append(tracking.allocations, allocation)])
                /\ result' = Outcome("allocate", "ok", "none",
                      [from |-> ContractAddress, to |-> target_pool, amount |-> amount])
                /\ UNCHANGED <<initialized, admin, allocators, commitments, tokens, nft, granted, now, issued>>

\* allocate that puts the new record in front of the history
allocate_prepended(caller, commitment_id, target_pool, amount) ==
    IF ~is_authorized_allocator(caller) THEN Panic("allocate", "Unauthorized")
    ELSE IF ~has_commitment(commitment_id) THEN Panic("allocate", "InactiveCommitment")
    ELSE IF get_commitment(commitment_id).status /= "active"
         THEN Panic("allocate", "InactiveCommitment")
    ELSE IF get_commitment_balance(commitment_id) < amount
         THEN Panic("allocate", "InsufficientBalance")
    ELSE \E o \in transfer_asset(get_commitment(commitment_id).asset_address,
                                 ContractAddress, target_pool, amount) :
        IF o /= "ok" THEN Panic("allocate", o)
        ELSE LET balance == get_commitment_balance(commitment_id)
                 tracking == get_allocation_tracking(commitment_id)
                 allocation == [commitment_id |-> commitment_id,
                                target_pool |-> target_pool,
                                amount |-> amount, timestamp |-> now]
             IN /\ RecordCount(DOMAIN trackings) < MaxAllocs
                /\ balances' = set_commitment_balance(commitment_id, balance - amount)
                /\ trackings' = set_allocation_tracking(commitment_id,
                      [total_allocated |-> tracking.total_allocated + amount,
                       allocations |-> <<allocation>> \o tracking.allocations])
                /\ result' = Outcome("allocate", "ok", "none",
                      [from |-> ContractAddress, to |-> target_pool, amount |-> amount])
                /\ UNCHANGED <<initialized, admin, allocators, commitments, tokens, nft, granted, now, issued>>

\* allocate that keeps the lowered balance when the transfer fails
allocate_write_first(caller, commitment_id, target_pool, amount) ==
    IF ~is_authorized_allocator(caller) THEN Panic("allocate", "Unauthorized")
    ELSE IF ~has_commitment(commitment_id) THEN Panic("allocate", "InactiveCommitment")
    ELSE IF get_commitment(commitment_id).status /= "active"
         THEN Panic("allocate", "InactiveCommitment")
    ELSE IF get_commitment_balance(commitment_id) < amount
         THEN Panic("allocate", "InsufficientBalance")
    ELSE \E o \in transfer_asset(get_commitment(commitment_id).asset_address,
                                 ContractAddress, target_pool, amount) :
        IF o /= "ok"
        THEN /\ balances' = set_commitment_balance(commitment_id,
                                get_commitment_balance(commitment_id) - amount)
             /\ result' = Outcome("allocate", o, "none", NoXfer)
             /\ UNCHANGED <<initialized, admin, allocators, commitments, trackings,
                            tokens, nft, granted, now, issued>>
        ELSE LET balance == get_commitment_balance(commitment_id)
                 tracking == get_allocation_tracking(commitment_id)
                 allocation == [commitment_id |-> commitment_id,
                                target_pool |-> target_pool,
                                amount |-> amount, timestamp |-> now]
             IN /\ RecordCount(DOMAIN trackings) < MaxAllocs
                /\ balances' = set_commitment_balance(commitment_id, balance - amount)
                /\ trackings' = set_allocation_tracking(commitment_id,
                      [total_allocated |-> tracking.total_allocated + amount,
                       allocations |-> Append(tracking.allocations, allocation)])
                /\ result' = Outcome("allocate", "ok", "none",
                      [from |-> ContractAddress, to |-> target_pool, amount |-> amount])
                /\ UNCHANGED <<initialized, admin, allocators, commitments, tokens, nft, granted, now, issued>>

allocate(caller, commitment_id, target_pool, amount) ==
    IF ~is_authorized_allocator(caller) THEN Panic("allocate", "Unauthorized")
    ELSE IF ~has_commitment(commitment_id) THEN Panic("allocate", "InactiveCommitment")
    ELSE IF get_commitment(commitment_id).status /= "active"
         THEN Panic("allocate", "InactiveCommitment")
    ELSE IF get_commitment_balance(commitment_id) < amount
         THEN Panic("allocate", "InsufficientBalance")
    ELSE \E o \in transfer_asset(get_commitment(commitment_id).asset_address,
                                 ContractAddress, target_pool, amount) :
        IF o /= "ok" THEN Panic("allocate", o)
        ELSE LET balance == get_commitment_balance(commitment_id)
                 tracking == get_allocation_tracking(commitment_id)
                 allocation == [commitment_id |-> commitment_id,
                                target_pool |-> target_pool,
                                amount |-> amount, timestamp |-> now]
             IN /\ RecordCount(DOMAIN trackings) < MaxAllocs
                /\ balances' = set_commitment_balance(commitment_id, balance - amount)
                /\ trackings' = set_allocation_tracking(commitment_id,
                      [total_allocated |-> tracking.total_allocated + amount,
                       allocations |-> Append(tracking.allocations, allocation)])
                /\ result' = Outcome("allocate", "ok", "none",
                      [from |-> ContractAddress, to |-> target_pool, amount |-> amount])
                /\ UNCHANGED <<initialized, admin, allocators, commitments, tokens, nft, granted, now, issued>>

\* deallocate without the floor at zero
deallocate_unclamped(caller, commitment_id, target_pool, amount) ==
    IF ~is_authorized_allocator(caller) THEN Panic("deallocate", "Unauthorized")
    ELSE IF ~has_commitment(commitment_id) THEN Panic("deallocate", "InactiveCommitment")
    ELSE \E o \in transfer_asset(get_commitment(commitment_id).asset_address,
                                 target_pool, ContractAddress, amount) :
        IF o /= "ok" THEN Panic("deallocate", o)
        ELSE LET balance == get_commitment_balance(commitment_id)
                 tracking == get_allocation_tracking(commitment_id)
             IN /\ BalanceSum(DOMAIN balances) + amount <= MaxBalance
                /\ balances' = set_commitment_balance(commitment_id, balance + amount)
                /\ trackings' = set_allocation_tracking(commitment_id,
                      [tracking EXCEPT !.total_allocated = tracking.total_allocated - amount])
                /\ result' = Outcome("deallocate", "ok", "none",
                      [from |-> target_pool, to |-> ContractAddress, amount |-> amount])
                /\ UNCHANGED <<initialized, admin, allocators, commitments, tokens, nft, granted, now, issued>>

\* deallocate that appends a record with the negated amount
deallocate_recording(caller, commitment_id, target_pool, amount) ==
    IF ~is_authorized_allocator(caller) THEN Panic("deallocate", "Unauthorized")
    ELSE IF ~has_commitment(commitment_id) THEN Panic("deallocate", "InactiveCommitment")
    ELSE \E o \in transfer_asset(get_commitment(commitment_id).asset_address,
                                 target_pool, ContractAddress, amount) :
        IF o /= "ok" THEN Panic("deallocate", o)
        ELSE LET balance == get_commitment_balance(commitment_id)
                 tracking == get_allocation_tracking(commitment_id)
                 total == tracking.total_allocated - amount
             IN /\ BalanceSum(DOMAIN balances) + amount <= MaxBalance
                /\ balances' = set_commitment_balance(commitment_id, balance + amount)
                /\ trackings' = set_allocation_tracking(commitment_id,
                      [total_allocated |-> IF total < 0 THEN 0 ELSE total,
                       allocations |-> Append(tracking.allocations,
                            [commitment_id |-> commitment_id, target_pool |-> target_pool,
                             amount |-> -amount, timestamp |-> now])])
                /\ result' = Outcome("deallocate", "ok", "none",
                      [from |-> target_pool, to |-> ContractAddress, amount |-> amount])
                /\ UNCHANGED <<initialized, admin, allocators, commitments, tokens, nft, granted, now, issued>>

\* deallocate that drops the last record of the history
deallocate_popping(caller, commitment_id, target_pool, amount) ==
    IF ~is_authorized_allocator(caller) THEN Panic("deallocate", "Unauthorized")
    ELSE IF ~has_commitment(commitment_id) THEN Panic("deallocate", "InactiveCommitment")
    ELSE \E o \in transfer_asset(get_commitment(commitment_id).asset_address,
                                 target_pool, ContractAddress, amount) :
        IF o /= "ok" THEN Panic("deallocate", o)
        ELSE LET balance == get_commitment_balance(commitment_id)
                 tracking == get_allocation_tracking(commitment_id)
                 total == tracking.total_allocated - amount
             IN /\ BalanceSum(DOMAIN balances) + amount <= MaxBalance
                /\ balances' = set_commitment_balance(commitment_id, balance + amount)
                /\ trackings' = set_allocation_tracking(commitment_id,
                      [total_allocated |-> IF total < 0 THEN 0 ELSE total,
                       allocations |-> IF tracking.allocations = <<>> THEN <<>>
                                       ELSE SubSeq(tracking.allocations, 1,
                                                   Len(tracking.allocations) - 1)])
                /\ result' = Outcome("deallocate", "ok", "none",
                      [from |-> target_pool, to |-> ContractAddress, amount |-> amount])
                /\ UNCHANGED <<initialized, admin, allocators, commitments, tokens, nft, granted, now, issued>>

\* deallocate with the status check of allocate
deallocate_active_only(caller, commitment_id, target_pool, amount) ==
    IF ~is_authorized_allocator(caller) THEN Panic("deallocate", "Unauthorized")
    ELSE IF ~has_commitment(commitment_id) THEN Panic("deallocate", "InactiveCommitment")
    ELSE IF get_commitment(commitment_id).status /= "active"
         THEN Panic("deallocate", "InactiveCommitment")
    ELSE \E o \in transfer_asset(get_commitment(commitment_id).asset_address,
                                 target_pool, ContractAddress, amount) :
        IF o /= "ok" THEN Panic("deallocate", o)
        ELSE LET balance == get_commitment_balance(commitment_id)
                 tracking == get_allocation_tracking(commitment_id)
                 total == tracking.total_allocated - amount
             IN /\ BalanceSum(DOMAIN balances) + amount <= MaxBalance
                /\ balances' = set_commitment_balance(commitment_id, balance + amount)
                /\ trackings' = set_allocation_tracking(commitment_id,
                      [tracking EXCEPT !.total_allocated = IF total < 0 THEN 0 ELSE total])
                /\ result' = Outcome("deallocate", "ok", "none",
                      [from |-> target_pool, to |-> ContractAddress, amount |-> amount])
                /\ UNCHANGED <<initialized, admin, allocators, commitments, tokens, nft, granted, now, issued>>

deallocate(caller, commitment_id, target_pool, amount) ==
    IF ~is_authorized_allocator(caller) THEN Panic("deallocate", "Unauthorized")
    ELSE IF ~has_commitment(commitment_id) THEN Panic("deallocate", "InactiveCommitment")
    ELSE \E o \in transfer_asset(get_commitment(commitment_id).asset_address,
                                 target_pool, ContractAddress, amount) :
        IF o /= "ok" THEN Panic("deallocate", o)
        ELSE LET balance == get_commitment_balance(commitment_id)
                 tracking == get_allocation_tracking(commitment_id)
                 total == tracking.total_allocated - amount
             IN /\ BalanceSum(DOMAIN balances) + amount <= MaxBalance
                /\ balances' = set_commitment_balance(commitment_id, balance + amount)
                /\ trackings' = set_allocation_tracking(commitment_id,
                      [tracking EXCEPT !.total_allocated = IF total < 0 THEN 0 ELSE total])
                /\ result' = Outcome("deallocate", "ok", "none",
                      [from |-> target_pool, to |-> ContractAddress, amount |-> amount])
                /\ UNCHANGED <<initialized, admin, allocators, commitments, tokens, nft, granted, now, issued>>

(***************************************************************************)
(* The specification of the Commitment Ledger.                             *)
(***************************************************************************)
\* create_commitment inputs: a valid one, and one for each way of being invalid
CreateInputs ==
    {[amount |-> 1, rules |-> TestRules(1, "safe")],
     [amount |-> 0, rules |-> TestRules(1, "safe")],
     [amount |-> 1, rules |-> TestRules(0, "safe")],
     [amount |-> 1, rules |-> TestRules(1, "growth")],
     [amount |-> 1, rules |-> [TestRules(1, "safe") EXCEPT !.max_loss_percent = 101]]}

Next ==
    \/ \E a \in Address : initialize(a)
    \/ \E s \in Address, a \in Allocators : add_authorized_allocator(s, a)
    \/ \E s \in Address, a \in Allocators : remove_authorized_allocator(s, a)
    \/ \E c \in CommitmentIds : update_value(c, 1)
    \/ \E c \in CommitmentIds : check_violations(c)
    \/ \E c \in CommitmentIds : settle(c)
    \/ \E c \in CommitmentIds, a \in Address : early_exit(c, a)
    \/ \E a \in Address, c \in CommitmentIds, p \in Pools, amount \in Amounts :
          allocate(a, c, p, amount)
    \/ \E a \in Address, c \in CommitmentIds, p \in Pools, amount \in Amounts :
          deallocate(a, c, p, amount)
    \/ Tick

Spec == Init /\ [][Next]_vars

(***************************************************************************)
(* Set-up and creation.  create_commitment and the second initialize read  *)
(* and write no storage, so they are checked on their own, beside the      *)
(* first initialize and the clock.                                         *)
(***************************************************************************)
NextCreate ==
    \/ \E a \in Address : initialize(a)
    \/ \E a \in Address : initialize_stub(a)
    \/ \E i \in CreateInputs : create_commitment("GA", i.amount, Asset, i.rules)
    \/ Tick

SpecCreate == Init /\ [][NextCreate]_vars

(***************************************************************************)
(* The Allocation Ledger called with amounts of either sign (amount is an  *)
(* i128): the set-up of the allocators, allocate and deallocate.           *)
(***************************************************************************)
SignedAmounts == {-1, 0, 1, 2}

NextSigned ==
    \/ \E a \in Address : initialize(a)
    \/ \E s \in Address, a \in Allocators : add_authorized_allocator(s, a)
    \/ \E s \in Address, a \in Allocators : remove_authorized_allocator(s, a)
    \/ \E a \in Address, c \in CommitmentIds, p \in Pools, amount \in SignedAmounts :
          allocate(a, c, p, amount)
    \/ \E a \in Address, c \in CommitmentIds, p \in Pools, amount \in SignedAmounts :
          deallocate(a, c, p, amount)

SpecSigned == Init /\ [][NextSigned]_vars

(***************************************************************************)
(* The Ownership Token Registry on its own: a fresh registry, its entry    *)
(* points and its clock.                                                   *)
(***************************************************************************)
CommitmentTypes == {"safe", "balanced", "aggressive"}

nft_initialize(new_admin) ==
    IF nft.initialized
    THEN Panic("nft_initialize", "AlreadyInitialized")
    ELSE /\ nft' = [nft EXCEPT !.initialized = TRUE, !.admin = new_admin]
         /\ result' = Outcome("nft_initialize", "ok", "none", NoXfer)
         /\ UNCHANGED <<core_store, tokens, granted, now, issued>>

add_authorized_minter(caller, minter) ==
    IF ~(nft.initialized /\ caller = nft.admin)
    THEN Panic("add_authorized_minter", "Unauthorized")
    ELSE /\ nft' = [nft EXCEPT !.minters = @ \cup {minter}]
         /\ result' = Outcome("add_authorized_minter", "ok", "none", NoXfer)
         /\ UNCHANGED <<core_store, tokens, granted, now, issued>>

total_supply == nft.token_counter

\* mint that takes the next id before it validates its arguments
mint_counting_first(caller, owner, commitment_id, duration_days, max_loss_percent, commitment_type, initial_amount, asset_address) ==
    IF ~(nft.initialized /\ (caller = nft.admin \/ caller \in nft.minters))
    THEN Panic("mint", "Unauthorized")
    ELSE IF \/ duration_days = 0 \/ max_loss_percent > 100
            \/ commitment_type \notin CommitmentTypes \/ initial_amount <= 0
    THEN /\ nft.token_counter < MaxTokens
         /\ nft' = [nft EXCEPT !.token_counter = @ + 1]
         /\ result' = Outcome("mint", "InvalidInput", "none", NoXfer)
         /\ UNCHANGED <<core_store, tokens, granted, now, issued>>
    ELSE LET token_id == nft.token_counter + 1
         IN /\ nft.token_counter < MaxTokens
            /\ tokens' = [t \in DOMAIN tokens \cup {token_id} |->
                            IF t = token_id
                            THEN Token(owner,
                                       Metadata(commitment_id, duration_days,
                                                max_loss_percent, commitment_type,
                                                initial_amount, asset_address, now),
                                       TRUE)
                            ELSE tokens[t]]
            /\ nft' = [nft EXCEPT !.token_counter = token_id]
            /\ result' = Outcome("mint", "ok", ToString(token_id), NoXfer)
            /\ UNCHANGED <<core_store, granted, now, issued>>

\* mint without the caller check
mint_open(caller, owner, commitment_id, duration_days, max_loss_percent, commitment_type, initial_amount, asset_address) ==
    IF duration_days = 0 THEN Panic("mint", "InvalidDuration")
    ELSE IF max_loss_percent > 100 THEN Panic("mint", "InvalidMaxLoss")
    ELSE IF commitment_type \notin CommitmentTypes
         THEN Panic("mint", "InvalidCommitmentType")
    ELSE IF initial_amount <= 0 THEN Panic("mint", "InvalidAmount")
    ELSE LET token_id == nft.token_counter + 1
         IN /\ nft.token_counter < MaxTokens
            /\ tokens' = [t \in DOMAIN tokens \cup {token_id} |->
                            IF t = token_id
                            THEN Token(owner,
                                       Metadata(commitment_id, duration_days,
                                                max_loss_percent, commitment_type,
                                                initial_amount, asset_address, now),
                                       TRUE)
                            ELSE tokens[t]]
            /\ nft' = [nft EXCEPT !.token_counter = token_id]
            /\ result' = Outcome("mint", "ok", ToString(token_id), NoXfer)
            /\ UNCHANGED <<core_store, granted, now, issued>>

\* mint without the max_loss_percent check
mint_any_loss(caller, owner, commitment_id, duration_days, max_loss_percent, commitment_type, initial_amount, asset_address) ==
    IF ~(nft.initialized /\ (caller = nft.admin \/ caller \in nft.minters))
    THEN Panic("mint", "Unauthorized")
    ELSE IF duration_days = 0 THEN Panic("mint", "InvalidDuration")
    ELSE IF commitment_type \notin CommitmentTypes
         THEN Panic("mint", "InvalidCommitmentType")
    ELSE IF initial_amount <= 0 THEN Panic("mint", "InvalidAmount")
    ELSE LET token_id == nft.token_counter + 1
         IN /\ nft.token_counter < MaxTokens
            /\ tokens' = [t \in DOMAIN tokens \cup {token_id} |->
                            IF t = token_id
                            THEN Token(owner,
                                       Metadata(commitment_id, duration_days,
                                                max_loss_percent, commitment_type,
                                                initial_amount, asset_address, now),
                                       TRUE)
                            ELSE tokens[t]]
            /\ nft' = [nft EXCEPT !.token_counter = token_id]
            /\ result' = Outcome("mint", "ok", ToString(token_id), NoXfer)
            /\ UNCHANGED <<core_store, granted, now, issued>>

mint(caller, owner, commitment_id, duration_days, max_loss_percent, commitment_type, initial_amount, asset_address) ==
    IF ~(nft.initialized /\ (caller = nft.admin \/ caller \in nft.minters))
    THEN Panic("mint", "Unauthorized")
    ELSE IF duration_days = 0 THEN Panic("mint", "InvalidDuration")
    ELSE IF max_loss_percent > 100 THEN Panic("mint", "InvalidMaxLoss")
    ELSE IF commitment_type \notin CommitmentTypes
         THEN Panic("mint", "InvalidCommitmentType")
    ELSE IF initial_amount <= 0 THEN Panic("mint", "InvalidAmount")
    ELSE LET token_id == nft.token_counter + 1
         IN /\ nft.token_counter < MaxTokens
            /\ tokens' = [t \in DOMAIN tokens \cup {token_id} |->
                            IF t = token_id
                            THEN Token(owner,
                                       Metadata(commitment_id, duration_days,
                                                max_loss_percent, commitment_type,
                                                initial_amount, asset_address, now),
                                       TRUE)
                            ELSE tokens[t]]
            /\ nft' = [nft EXCEPT !.token_counter = token_id]
            /\ result' = Outcome("mint", "ok", ToString(token_id), NoXfer)
            /\ UNCHANGED <<core_store, granted, now, issued>>

\* transfer without the owner check
transfer_by_anyone(caller, to, token_id) ==
    IF token_id \notin DOMAIN tokens THEN Panic("transfer", "NotFound")
    ELSE IF ~tokens[token_id].is_active THEN Panic("transfer", "InactiveToken")
    ELSE /\ tokens' = [tokens EXCEPT ![token_id].owner = to]
         /\ result' = Outcome("transfer", "ok", "none", NoXfer)
         /\ UNCHANGED <<core_store, nft, granted, now, issued>>

\* transfer without the active check
transfer_inactive(caller, to, token_id) ==
    IF token_id \notin DOMAIN tokens THEN Panic("transfer", "NotFound")
    ELSE IF caller /= tokens[token_id].owner THEN Panic("transfer", "Unauthorized")
    ELSE /\ tokens' = [tokens EXCEPT ![token_id].owner = to]
         /\ result' = Outcome("transfer", "ok", "none", NoXfer)
         /\ UNCHANGED <<core_store, nft, granted, now, issued>>

transfer(caller, to, token_id) ==
    IF token_id \notin DOMAIN tokens THEN Panic("transfer", "NotFound")
    ELSE IF caller /= tokens[token_id].owner THEN Panic("transfer", "Unauthorized")
    ELSE IF ~tokens[token_id].is_active THEN Panic("transfer", "InactiveToken")
    ELSE /\ tokens' = [tokens EXCEPT ![token_id].owner = to]
         /\ result' = Outcome("transfer", "ok", "none", NoXfer)
         /\ UNCHANGED <<core_store, nft, granted, now, issued>>

nft_settle(token_id) ==
    IF token_id \notin DOMAIN tokens THEN Panic("nft_settle", "NotFound")
    ELSE IF now < tokens[token_id].metadata.expires_at
         THEN Panic("nft_settle", "NotYetExpired")
    ELSE IF ~tokens[token_id].is_active THEN Panic("nft_settle", "AlreadySettled")
    ELSE /\ tokens' = [tokens EXCEPT ![token_id].is_active = FALSE]
         /\ result' = Outcome("nft_settle", "ok", "none", NoXfer)
         /\ UNCHANGED <<core_store, nft, granted, now, issued>>

\* The read-only entry points: the answer, or NotFound.
Found(value) == [err |-> "ok", ret |-> value]

NotFound == [err |-> "NotFound", ret |-> "none"]

owner_of(token_id) ==
    IF token_id \in DOMAIN tokens THEN Found(tokens[token_id].owner) ELSE NotFound

get_metadata(token_id) ==
    IF token_id \in DOMAIN tokens THEN Found(tokens[token_id].metadata) ELSE NotFound

is_active(token_id) ==
    IF token_id \in DOMAIN tokens THEN Found(tokens[token_id].is_active) ELSE NotFound

\* mint arguments: one valid set for each allowed type (the last with the
\* largest duration and amount the ledger times and 32-bit integers leave
\* room for), and one for each way of being invalid
MintInputs ==
    {[owner |-> "GA", duration_days |-> 1, max_loss_percent |-> 20,
      commitment_type |-> "safe", initial_amount |-> 1],
     [owner |-> "GB", duration_days |-> 1, max_loss_percent |-> 20,
      commitment_type |-> "balanced", initial_amount |-> 1],
     [owner |-> "GA", duration_days |-> 24854, max_loss_percent |-> 100,
      commitment_type |-> "aggressive", initial_amount |-> 2147483647],
     [owner |-> "GA", duration_days |-> 0, max_loss_percent |-> 20,
      commitment_type |-> "safe", initial_amount |-> 1],
     [owner |-> "GA", duration_days |-> 1, max_loss_percent |-> 101,
      commitment_type |-> "safe", initial_amount |-> 1],
     [owner |-> "GA", duration_days |-> 1, max_loss_percent |-> 20,
      commitment_type |-> "invalid_type", initial_amount |-> 1],
     [owner |-> "GA", duration_days |-> 1, max_loss_percent |-> 20,
      commitment_type |-> "safe", initial_amount |-> 0]}

MintWith(caller, i) ==
    mint(caller, i.owner, "c1", i.duration_days, i.max_loss_percent,
         i.commitment_type, i.initial_amount, Asset)

TokenIds == 1 .. MaxTokens + 1

\* The registry clock: read at 0 and one second after the one-day tokens
\* minted at 0 have expired.
NftTimestamps == {0, DaySeconds + 1}

NftTick ==
    /\ \E t \in NftTimestamps : t > now /\ now' = t
    /\ result' = Outcome("tick", "ok", "none", NoXfer)
    /\ UNCHANGED <<core_store, tokens, nft, granted, issued>>

InitNft ==
    /\ initialized = FALSE
    /\ admin = <<>>
    /\ allocators = <<>>
    /\ commitments = <<>>
    /\ balances = <<>>
    /\ trackings = <<>>
    /\ tokens = <<>>
    /\ nft = [initialized |-> FALSE, admin |-> "none", minters |-> {},
              token_counter |-> 0]
    /\ granted = {}
    /\ now = 0
    /\ issued = {}
    /\ result = Outcome("none", "ok", "none", NoXfer)

NextNft ==
    \/ \E a \in Address : nft_initialize(a)
    \/ \E a \in Address, m \in Address : add_authorized_minter(a, m)
    \/ \E a \in Address, i \in MintInputs : MintWith(a, i)
    \/ \E a \in Address, to \in Address, t \in TokenIds : transfer(a, to, t)
    \/ \E t \in TokenIds : nft_settle(t)
    \/ NftTick

SpecNft == InitNft /\ [][NextNft]_vars

(***************************************************************************)
(* Properties.                                                             *)
(***************************************************************************)
AllowedTypes == {"safe", "balanced", "aggressive"}

\* C1: in every reachable state the total_allocated of every commitment is at
\* most the commitment's principal amount.
C1_TotalWithinPrincipal ==
    \A c \in DOMAIN commitments :
        get_allocation_tracking(c).total_allocated <= get_commitment(c).amount

\* C2: total_allocated is never negative, and a deallocate of more than the
\* current total_allocated leaves it at exactly 0.
C2_TotalNeverNegative ==
    /\ [](\A c \in CommitmentIds : get_allocation_tracking(c).total_allocated >= 0)
    /\ [][(result'.op = "deallocate" /\ result'.err = "ok") =>
            \A a \in Address, c \in CommitmentIds, p \in Pools, amount \in Amounts :
                (/\ deallocate(a, c, p, amount)
                 /\ amount > get_allocation_tracking(c).total_allocated)
                => trackings'[c].total_allocated = 0]_vars

\* C2 witness: a deallocate of 2 has returned on a commitment whose only
\* allocation was of 1, and total_allocated is 0.
C2_Witness ==
    \E c \in DOMAIN trackings :
        /\ result.op = "deallocate" /\ result.err = "ok" /\ result.xfer.amount = 2
        /\ Len(trackings[c].allocations) = 1
        /\ trackings[c].allocations[1].amount = 1
        /\ balances[c] = 2
        /\ trackings[c].total_allocated = 0

\* C3: the status of a commitment changes only from active to settled,
\* violated or early_exit; a status that is not active never changes.
C3_StatusOneWay ==
    [][\A c \in DOMAIN commitments :
            /\ c \in DOMAIN commitments'
            /\ commitments'[c].status /= commitments[c].status
                => /\ commitments[c].status = "active"
                   /\ commitments'[c].status \in Statuses \ {"active"}]_vars

\* C3 witness: settle has returned while a commitment that left active
\* (status early_exit) is stored.
C3_Witness ==
    \E c \in DOMAIN commitments :
        /\ commitments[c].status = "early_exit"
        /\ result.op = "settle"

\* C4: after settle succeeds on an active, expired commitment, or early_exit by
\* the owner succeeds on an active commitment, the linked ownership token is
\* inactive.
C4_TokenInactiveAfterSettle ==
    [][\A c \in DOMAIN commitments :
            (/\ get_commitment(c).status = "active"
             /\ get_commitment(c).nft_token_id \in DOMAIN tokens
             /\ \/ settle(c) /\ now >= get_commitment(c).expires_at
                \/ early_exit(c, get_commitment(c).owner)
             /\ result'.err = "ok")
            => ~(nft_is_active(get_commitment(c).nft_token_id))']_vars

\* C5: settle on a commitment that is already settled fails with
\* AlreadySettled, changes no state and makes no payout.
C5_SettleSingleFire ==
    [][\A c \in DOMAIN commitments :
            (settle(c) /\ get_commitment(c).status = "settled")
            => /\ result'.err = "AlreadySettled"
               /\ result'.xfer = NoXfer
               /\ UNCHANGED <<core_store, tokens>>]_vars

\* C6: settle on an active commitment before expires_at fails with
\* NotYetExpired and leaves the record as it was.
C6_SettleBeforeExpiry ==
    [][\A c \in DOMAIN commitments :
            (/\ settle(c)
             /\ get_commitment(c).status = "active"
             /\ now < get_commitment(c).expires_at)
            => /\ result'.err = "NotYetExpired"
               /\ commitments' = commitments]_vars

\* C7: settle on an active commitment at or after expires_at succeeds, pays
\* exactly current_value to the owner, sets the status to settled and leaves
\* current_value and nft_token_id as they were.
C7_SettlePaysCurrentValue ==
    [][\A c \in DOMAIN commitments :
            (/\ settle(c)
             /\ get_commitment(c).status = "active"
             /\ now >= get_commitment(c).expires_at)
            => /\ result'.err = "ok"
               /\ result'.xfer = [from |-> ContractAddress,
                                  to |-> get_commitment(c).owner,
                                  amount |-> get_commitment(c).current_value]
               /\ commitments'[c].status = "settled"
               /\ commitments'[c].current_value = get_commitment(c).current_value
               /\ commitments'[c].nft_token_id = get_commitment(c).nft_token_id]_vars

ValidCreate(i) ==
    /\ i.amount > 0
    /\ i.rules.duration_days > 0
    /\ i.rules.max_loss_percent <= 100
    /\ i.rules.commitment_type \in AllowedTypes

\* The record the claim expects get_commitment to return after a creation.
CreatedAsClaimed(rec, i) ==
    /\ rec.status = "active"
    /\ rec.current_value = i.amount
    /\ rec.expires_at = rec.created_at + i.rules.duration_days * DaySeconds

\* C9: after a valid create_commitment, get_commitment of the returned id
\* yields a record with status active, current_value = amount and
\* expires_at = created_at + duration_days * 86400 (whichever of the two
\* get_commitment definitions answers).
C9_CreateThenGet ==
    [][\A i \in CreateInputs :
            (/\ create_commitment("GA", i.amount, Asset, i.rules)
             /\ ValidCreate(i)
             /\ result'.err = "ok")
            => LET got == (GetCommitmentResults(result.ret))'
               IN /\ got.stored /= {}
                  /\ \A rec \in got.stored \cup {got.placeholder} :
                        CreatedAsClaimed(rec, i)]_vars

\* C10: create_commitment with amount <= 0 fails with InvalidAmount, with
\* max_loss_percent > 100, duration_days = 0 or a type outside the allowed set
\* fails with InvalidRules; a failing call stores no commitment and mints no
\* token.
C10_CreateRejectsInvalid ==
    [][\A i \in CreateInputs :
            (create_commitment("GA", i.amount, Asset, i.rules) /\ ~ValidCreate(i))
            => /\ result'.err = IF i.amount <= 0 THEN "InvalidAmount" ELSE "InvalidRules"
               /\ UNCHANGED <<commitments, tokens>>]_vars

\* C11: a successful create_commitment never returns an id that an earlier
\* call has returned.
C11_IdsUnique ==
    [][\A i \in CreateInputs :
            (/\ create_commitment("GA", i.amount, Asset, i.rules)
             /\ result'.err = "ok")
            => result'.ret \notin issued]_vars

\* The loss of a commitment in percent of its principal, rounded down.
LossPercent(rec) == ((rec.amount - rec.current_value) * 100) \div rec.amount

\* C12: check_violations on an active, unexpired commitment with amount > 0
\* returns false when the loss percentage equals max_loss_percent and true
\* when current_value is one unit below a value with that loss.
C12_LossBoundary ==
    [][result'.op = "check_violations" =>
        \A c \in DOMAIN commitments :
            LET rec == get_commitment(c)
                above == [rec EXCEPT !.current_value = @ + 1]
            IN (/\ check_violations(c)
                /\ rec.status = "active"
                /\ now < rec.expires_at
                /\ rec.amount > 0)
               => /\ (LossPercent(rec) = rec.rules.max_loss_percent)
                        => result'.ret = "false"
                  /\ (/\ LossPercent(above) = rec.rules.max_loss_percent
                      /\ LossPercent(rec) > rec.rules.max_loss_percent)
                        => result'.ret = "true"]_vars

\* C13: check_violations on an active commitment without loss returns true
\* when the ledger time is at or after expires_at and false when it is at
\* most expires_at - 1.
C13_DurationBoundary ==
    [][result'.op = "check_violations" =>
        \A c \in DOMAIN commitments :
            LET rec == get_commitment(c)
            IN (/\ check_violations(c)
                /\ rec.status = "active"
                /\ rec.current_value >= rec.amount)
               => /\ (now >= rec.expires_at) => result'.ret = "true"
                  /\ (now <= rec.expires_at - 1) => result'.ret = "false"]_vars

\* C14: update_value succeeds only when an authorized allocator calls it, and
\* a successful call overwrites current_value with new_value and leaves the
\* status as it was.
C14_UpdateValue ==
    [][result'.op = "update_value" =>
        \A c \in DOMAIN commitments, v \in Amounts :
            (update_value(c, v) /\ result'.err = "ok")
            => /\ \E a \in Address : is_authorized_allocator(a)
               /\ commitments'[c].current_value = v
               /\ commitments'[c].status = commitments[c].status]_vars

\* C15: early_exit by a caller other than the owner fails with Unauthorized,
\* early_exit on a commitment that is not active fails, both leaving record
\* and token unchanged; a successful early_exit sets the status to early_exit
\* and pays the owner current_value - current_value * early_exit_penalty / 100.
C15_EarlyExit ==
    [][result'.op = "early_exit" =>
        \A c \in DOMAIN commitments, a \in Address :
            LET rec == get_commitment(c)
                v == rec.current_value
            IN early_exit(c, a)
               => /\ (a /= rec.owner)
                        => /\ result'.err = "Unauthorized"
                           /\ UNCHANGED <<commitments, tokens>>
                  /\ (a = rec.owner /\ rec.status /= "active")
                        => /\ result'.err /= "ok"
                           /\ UNCHANGED <<commitments, tokens>>
                  /\ (a = rec.owner /\ rec.status = "active" /\ result'.err = "ok")
                        => /\ commitments'[c].status = "early_exit"
                           /\ result'.xfer =
                                [from |-> ContractAddress, to |-> rec.owner,
                                 amount |-> v - (v * rec.rules.early_exit_penalty) \div 100]]_vars

\* C16: allocate by a caller who is not an authorized allocator fails with
\* Unauthorized, whatever the commitment, target and amount, and leaves every
\* balance, total_allocated and history as it was: an allocate step with any
\* other outcome is not a call by such a caller.
C16_AllocateUnauthorized ==
    [][(/\ result'.op = "allocate"
        /\ ~(result'.err = "Unauthorized" /\ UNCHANGED <<balances, trackings>>))
        => \A a \in Address, c \in CommitmentIds, p \in Pools, amt \in Amounts :
                ~is_authorized_allocator(a) => ~allocate(a, c, p, amt)]_vars

\* C16 witness: an allocate has failed with Unauthorized while an active
\* commitment holds a positive balance.
C16_Witness ==
    /\ result.op = "allocate"
    /\ result.err = "Unauthorized"
    /\ \E c \in DOMAIN commitments :
            /\ get_commitment(c).status = "active"
            /\ get_commitment_balance(c) > 0

\* C17: allocate by an authorized caller succeeds only if amount is at most
\* principal - total_allocated; a larger amount on an active commitment fails
\* with InsufficientBalance and changes nothing.
C17_AllocateWithinPrincipal ==
    [][result'.op = "allocate" =>
        \A a \in Address, c \in DOMAIN commitments, p \in Pools, amt \in Amounts :
            LET free == get_commitment(c).amount
                            - get_allocation_tracking(c).total_allocated
            IN (is_authorized_allocator(a) /\ allocate(a, c, p, amt))
               => /\ (result'.err = "ok") => amt <= free
                  /\ (get_commitment(c).status = "active" /\ amt > free)
                        => /\ result'.err = "InsufficientBalance"
                           /\ UNCHANGED <<balances, trackings>>]_vars

\* C18: allocate by an authorized caller on an id that is not stored, or on a
\* commitment whose status is not active, fails with InactiveCommitment and
\* changes no balance, total_allocated or history: an allocate step with any
\* other outcome is not such a call.
C18_AllocateInactive ==
    [][(/\ result'.op = "allocate"
        /\ ~(result'.err = "InactiveCommitment" /\ UNCHANGED <<balances, trackings>>))
        => \A a \in Address, c \in CommitmentIds, p \in Pools, amt \in Amounts :
                (/\ is_authorized_allocator(a)
                 /\ \/ ~has_commitment(c)
                    \/ get_commitment(c).status /= "active")
                => ~allocate(a, c, p, amt)]_vars

\* C18 witness: an allocate has failed with InactiveCommitment while an
\* allocator is authorized and a commitment that is not active holds a
\* positive balance.
C18_Witness ==
    /\ result.op = "allocate"
    /\ result.err = "InactiveCommitment"
    /\ \E a \in Address : is_authorized_allocator(a)
    /\ \E c \in DOMAIN commitments :
            /\ get_commitment(c).status /= "active"
            /\ get_commitment_balance(c) > 0

\* C19: a successful allocate appends exactly one record (commitment id,
\* target, amount, current ledger timestamp) at the end of the history, raises
\* total_allocated by the amount and lowers the balance by the amount.
C19_AllocateAppends ==
    [][(result'.op = "allocate" /\ result'.err = "ok") =>
        \A a \in Address, c \in DOMAIN commitments, p \in Pools, amt \in Amounts :
            allocate(a, c, p, amt)
            => LET before == get_allocation_tracking(c)
                   after == (get_allocation_tracking(c))'
               IN /\ after.allocations =
                        Append(before.allocations,
                               [commitment_id |-> c, target_pool |-> p,
                                amount |-> amt, timestamp |-> now])
                  /\ after.total_allocated = before.total_allocated + amt
                  /\ (get_commitment_balance(c))' = get_commitment_balance(c) - amt]_vars

\* C19 witness: an allocate has succeeded and a history holds two records,
\* the later one with the later timestamp.
C19_Witness ==
    /\ result.op = "allocate"
    /\ result.err = "ok"
    /\ \E c \in DOMAIN trackings :
            LET h == get_allocation_tracking(c).allocations
            IN Len(h) = 2 /\ h[1].timestamp < h[2].timestamp

\* C20: when the external transfer fails inside allocate or deallocate, the
\* balances, total_allocated and histories are exactly as before the call.
C20_TransferFailureAtomic ==
    [][(result'.op \in {"allocate", "deallocate"} /\ result'.err = "TransferFailed")
            => UNCHANGED <<balances, trackings>>]_vars

\* C20 witness: an allocate has failed with TransferFailed on storage where an
\* active commitment has a positive balance and a non-empty history.
C20_Witness ==
    /\ result.op = "allocate"
    /\ result.err = "TransferFailed"
    /\ \E c \in DOMAIN commitments :
            /\ get_commitment(c).status = "active"
            /\ get_commitment_balance(c) > 0
            /\ get_allocation_tracking(c).allocations /= <<>>

\* C21: a successful deallocate sets total_allocated to
\* max(0, total_allocated - amount), adds amount to the balance and leaves the
\* history as it was; deallocate by a caller who is not an authorized allocator
\* fails with Unauthorized and changes nothing (a deallocate step with any
\* other outcome is not a call by such a caller).
C21_DeallocateBookkeeping ==
    [][result'.op = "deallocate" =>
        /\ (result'.err = "ok") =>
              \A a \in Address, c \in DOMAIN commitments, p \in Pools, amt \in Amounts :
                  deallocate(a, c, p, amt)
                  => LET before == get_allocation_tracking(c)
                         after == (get_allocation_tracking(c))'
                         total == before.total_allocated - amt
                     IN /\ after.total_allocated = IF total > 0 THEN total ELSE 0
                        /\ after.allocations = before.allocations
                        /\ (get_commitment_balance(c))' = get_commitment_balance(c) + amt
        /\ ~(result'.err = "Unauthorized" /\ UNCHANGED <<balances, trackings>>) =>
              \A a \in Address :
                  ~is_authorized_allocator(a)
                  => \A c \in CommitmentIds, p \in Pools, amt \in Amounts :
                        ~deallocate(a, c, p, amt)]_vars

\* C21 witness: a deallocate of 1 has returned on a commitment whose only
\* allocation was of 2: total_allocated is 1, the balance 1, the history as it
\* was.
C21_Witness ==
    \E c \in DOMAIN trackings :
        /\ result.op = "deallocate" /\ result.err = "ok" /\ result.xfer.amount = 1
        /\ Len(trackings[c].allocations) = 1
        /\ trackings[c].allocations[1].amount = 2
        /\ trackings[c].total_allocated = 1
        /\ balances[c] = 1

IsPrefix(s, t) == Len(s) <= Len(t) /\ SubSeq(t, 1, Len(s)) = s

\* C22: the allocation history is append-only: across every step the history
\* of each commitment before the step is a prefix of its history after it.
C22_HistoryAppendOnly ==
    [][trackings' /= trackings =>
        \A c \in DOMAIN trackings :
            /\ c \in DOMAIN trackings'
            /\ IsPrefix(trackings[c].allocations, trackings'[c].allocations)]_vars

\* C22 witness: a deallocate has returned on storage where a history holds two
\* records.
C22_Witness ==
    /\ result.op = "deallocate"
    /\ result.err = "ok"
    /\ \E c \in DOMAIN trackings : Len(trackings[c].allocations) = 2

\* C23: the admin is set exactly once: initialize on a contract that is not
\* initialized stores the given admin, and initialize on an initialized
\* contract fails with AlreadyInitialized and leaves the stored admin as it
\* was, whatever address it is called with (under either definition of
\* initialize).
C23_AdminSetOnce ==
    [][result'.op = "initialize" =>
        \A a \in Address :
            (initialize(a) \/ initialize_stub(a))
            => IF is_initialized
               THEN result'.err = "AlreadyInitialized" /\ admin' = admin
               ELSE result'.err = "ok" /\ has_admin' /\ get_admin' = a]_vars

\* C24: allocator authorization follows the latest admin action: an address
\* is authorized exactly when its most recent successful add_authorized_allocator
\* or remove_authorized_allocator was an add (never, if there was none), and
\* an allocate or deallocate by an address fails with Unauthorized exactly
\* when that is not so (a step that fails with Unauthorized is not a call by
\* such an address, a step with another outcome not a call by any other).
C24_AuthorizationFollowsAdmin ==
    /\ [](\A a \in Address : is_authorized_allocator(a) <=> a \in granted)
    /\ [][result'.op = "allocate" =>
            /\ (result'.err = "Unauthorized") =>
                  \A a \in granted :
                      \A c \in CommitmentIds, p \in Pools, amt \in SignedAmounts :
                          ~allocate(a, c, p, amt)
            /\ (result'.err /= "Unauthorized") =>
                  \A a \in Address \ granted :
                      \A c \in CommitmentIds, p \in Pools, amt \in SignedAmounts :
                          ~allocate(a, c, p, amt)]_vars
    /\ [][result'.op = "deallocate" =>
            /\ (result'.err = "Unauthorized") =>
                  \A a \in granted :
                      \A c \in CommitmentIds, p \in Pools, amt \in SignedAmounts :
                          ~deallocate(a, c, p, amt)
            /\ (result'.err /= "Unauthorized") =>
                  \A a \in Address \ granted :
                      \A c \in CommitmentIds, p \in Pools, amt \in SignedAmounts :
                          ~deallocate(a, c, p, amt)]_vars

\* C24 witness: a deallocate has failed with Unauthorized after the allocator
\* that had filled a balance was removed.
C24_Witness ==
    /\ result.op = "deallocate"
    /\ result.err = "Unauthorized"
    /\ \E a \in DOMAIN allocators : a \notin granted
    /\ \E c \in DOMAIN balances : balances[c] > 0

\* C25: token ids are sequential and unique: total_supply is the number of
\* tokens and the tokens are 1 .. total_supply; a successful initialize leaves
\* total_supply at 0; a successful mint returns total_supply + 1 and raises
\* total_supply by one; a failed mint changes neither total_supply nor the
\* tokens.
C25_SequentialTokenIds ==
    /\ [](/\ total_supply = Cardinality(DOMAIN tokens)
          /\ DOMAIN tokens = 1 .. total_supply)
    /\ [][(result'.op = "nft_initialize" /\ result'.err = "ok")
            => total_supply' = 0]_vars
    /\ [][result'.op = "mint" =>
            IF result'.err = "ok"
            THEN /\ result'.ret = ToString(total_supply + 1)
                 /\ total_supply' = total_supply + 1
            ELSE UNCHANGED <<nft, tokens>>]_vars

\* C25 witness: the second successful mint has returned 2, at a later ledger
\* time than the first, and total_supply is 2.
C25_Witness ==
    /\ result.op = "mint"
    /\ result.ret = ToString(2)
    /\ total_supply = 2
    /\ tokens[1].metadata.created_at < tokens[2].metadata.created_at

MayMint(caller) ==
    nft.initialized /\ (caller = nft.admin \/ caller \in nft.minters)

\* C26: mint by a caller who is neither the admin nor an authorized minter
\* fails with Unauthorized and creates no token; a successful mint is never a
\* call by such a caller.
C26_MintAuthorized ==
    [][result'.op = "mint" =>
        \A caller \in Address :
            ~MayMint(caller)
            => \A i \in MintInputs :
                    MintWith(caller, i)
                    => result'.err = "Unauthorized" /\ tokens' = tokens]_vars

\* C26 witness: a mint has failed with Unauthorized on an initialized registry
\* that already holds a token.
C26_Witness ==
    /\ result.op = "mint"
    /\ result.err = "Unauthorized"
    /\ nft.initialized
    /\ total_supply = 1

ValidMint(i) ==
    /\ i.duration_days > 0
    /\ i.max_loss_percent <= 100
    /\ i.commitment_type \in AllowedTypes
    /\ i.initial_amount > 0

\* C27: mint by an authorized caller fails and creates no token when
\* duration = 0, max_loss > 100, the type is not allowed or amount <= 0; with
\* any other arguments it succeeds, and the new token has the given owner, is
\* active and carries exactly the given metadata.
C27_MintValidates ==
    [][result'.op = "mint" =>
        \A caller \in Address :
            MayMint(caller)
            => \A i \in MintInputs :
                    MintWith(caller, i)
                    => IF ValidMint(i)
                       THEN /\ result'.err = "ok"
                            /\ DOMAIN tokens' = DOMAIN tokens \cup {total_supply'}
                            /\ total_supply' \notin DOMAIN tokens
                            /\ tokens'[total_supply'].owner = i.owner
                            /\ tokens'[total_supply'].is_active
                            /\ LET m == tokens'[total_supply'].metadata
                               IN /\ m.commitment_id = "c1"
                                  /\ m.duration_days = i.duration_days
                                  /\ m.max_loss_percent = i.max_loss_percent
                                  /\ m.commitment_type = i.commitment_type
                                  /\ m.initial_amount = i.initial_amount
                                  /\ m.asset_address = Asset
                       ELSE /\ result'.err /= "ok"
                            /\ UNCHANGED <<tokens, nft>>]_vars

\* C27 witness: a mint with the largest duration and amount and
\* max_loss_percent 100 has succeeded beside a token of type balanced.
C27_Witness ==
    /\ result.op = "mint"
    /\ result.err = "ok"
    /\ \E t \in DOMAIN tokens :
            /\ result.ret = ToString(t)
            /\ tokens[t].metadata.commitment_type = "aggressive"
            /\ tokens[t].metadata.max_loss_percent = 100
            /\ tokens[t].metadata.duration_days > 1
            /\ tokens[t].is_active
    /\ \E t \in DOMAIN tokens : tokens[t].metadata.commitment_type = "balanced"

\* C28: the owner of a token changes only through a successful transfer by
\* its current owner; a transfer by anyone else fails with Unauthorized and
\* leaves the owner as it was (a transfer step with any other outcome is not a
\* call by someone else); after a successful transfer the owner is `to`.
C28_OwnerChangesByTransfer ==
    /\ [][tokens' /= tokens =>
            \A t \in DOMAIN tokens :
                tokens'[t].owner /= tokens[t].owner
                => /\ result'.op = "transfer"
                   /\ result'.err = "ok"
                   /\ transfer(tokens[t].owner, tokens'[t].owner, t)]_vars
    /\ [][(/\ result'.op = "transfer"
            /\ ~(result'.err = "Unauthorized" /\ tokens' = tokens))
            => \A t \in DOMAIN tokens :
                    \A caller \in Address \ {tokens[t].owner}, to \in Address :
                        ~transfer(caller, to, t)]_vars
    /\ [][(result'.op = "transfer" /\ result'.err = "ok")
            => \A caller \in Address, to \in Address, t \in DOMAIN tokens :
                    transfer(caller, to, t) => owner_of(t)' = Found(to)]_vars

\* C28 witness: a transfer has succeeded and the token minted for GA belongs
\* to GB.
C28_Witness ==
    /\ result.op = "transfer"
    /\ result.err = "ok"
    /\ \E t \in DOMAIN tokens :
            /\ tokens[t].metadata.commitment_type = "safe"
            /\ owner_of(t) = Found("GB")

\* C29: a token is active from its mint until its settlement and inactive
\* ever after: a new token is active; settle before expires_at fails with
\* NotYetExpired and leaves the token active; settle after expires_at on an
\* active token sets it inactive; settle on an inactive token fails with
\* AlreadySettled; only a successful settle changes the flag; an inactive
\* token stays inactive and keeps its owner.
C29_ActiveUntilSettled ==
    /\ [][tokens' /= tokens =>
            /\ \A t \in DOMAIN tokens' \ DOMAIN tokens : tokens'[t].is_active
            /\ \A t \in DOMAIN tokens :
                    /\ t \in DOMAIN tokens'
                    /\ ~tokens[t].is_active
                        => /\ ~tokens'[t].is_active
                           /\ tokens'[t].owner = tokens[t].owner
                    /\ tokens'[t].is_active /= tokens[t].is_active
                        => result'.op = "nft_settle" /\ result'.err = "ok"]_vars
    /\ [][result'.op = "nft_settle" =>
            \A t \in DOMAIN tokens :
                nft_settle(t)
                => /\ (tokens[t].is_active /\ now < tokens[t].metadata.expires_at)
                        => /\ result'.err = "NotYetExpired"
                           /\ tokens'[t].is_active
                   /\ (tokens[t].is_active /\ now > tokens[t].metadata.expires_at)
                        => /\ result'.err = "ok"
                           /\ ~tokens'[t].is_active
                   /\ ~tokens[t].is_active
                        => /\ result'.err = "AlreadySettled"
                           /\ tokens' = tokens]_vars

\* C29 witness: a settle has failed with AlreadySettled on a settled token
\* while another token, transferred to GB before, is still active.
C29_Witness ==
    /\ result.op = "nft_settle"
    /\ result.err = "AlreadySettled"
    /\ \E t \in DOMAIN tokens : ~tokens[t].is_active
    /\ \E t \in DOMAIN tokens :
            /\ tokens[t].is_active
            /\ tokens[t].metadata.commitment_type = "aggressive"
            /\ tokens[t].owner = "GB"

\* C30: settle on a commitment id that is not stored fails with a not-found
\* error and changes nothing; the registry's settle, owner_of, get_metadata
\* and is_active answer NotFound for a token id that was never minted.
C30_UnknownIdsNotFound ==
    /\ [](\A t \in TokenIds \ DOMAIN tokens :
            /\ owner_of(t).err = "NotFound"
            /\ get_metadata(t).err = "NotFound"
            /\ is_active(t).err = "NotFound")
    /\ [][result'.op = "nft_settle" =>
            \A t \in TokenIds \ DOMAIN tokens :
                nft_settle(t)
                => result'.err = "NotFound" /\ UNCHANGED <<tokens, nft>>]_vars
    /\ [][result'.op = "settle" =>
            \A c \in CommitmentIds \ DOMAIN commitments :
                settle(c)
                => result'.err = "NotFound" /\ UNCHANGED <<core_store, tokens>>]_vars

\* What the storage holds for commitment b is the same after the step: its
\* record, its balance and its tracking (total_allocated and history), key by
\* key.
Untouched(b) ==
    /\ (b \in DOMAIN commitments') <=> (b \in DOMAIN commitments)
    /\ b \in DOMAIN commitments => commitments'[b] = commitments[b]
    /\ (b \in DOMAIN balances') <=> (b \in DOMAIN balances)
    /\ b \in DOMAIN balances => balances'[b] = balances[b]
    /\ (b \in DOMAIN trackings') <=> (b \in DOMAIN trackings)
    /\ b \in DOMAIN trackings => trackings'[b] = trackings[b]

\* C31: an operation on one commitment leaves every other commitment
\* untouched: settle of a leaves the record (status included) of every b /= a
\* as it was, and allocate or deallocate on a leaves the balance,
\* total_allocated and history of every b /= a as they were.  Stated from the
\* side of b: a step after which b is not as it was is not a settle, allocate
\* or deallocate on another commitment (a step that changes no record, balance
\* or tracking leaves every b as it was).
C31_OtherCommitmentsUntouched ==
    [][~UNCHANGED <<commitments, balances, trackings>> =>
        \A b \in CommitmentIds :
            ~Untouched(b) =>
                \A a \in CommitmentIds \ {b} :
                    /\ result'.op = "settle" => ~settle(a)
                    /\ result'.op = "allocate" =>
                            \A caller \in Address, p \in Pools, amt \in Amounts :
                                ~allocate(caller, a, p, amt)
                    /\ result'.op = "deallocate" =>
                            \A caller \in Address, p \in Pools, amt \in Amounts :
                                ~deallocate(caller, a, p, amt)]_vars

\* C31 witness: an allocate on one commitment has succeeded while another
\* commitment holds a record, a positive balance and a tracking of its own.
C31_Witness ==
    /\ result.op = "allocate"
    /\ result.err = "ok"
    /\ \E a \in DOMAIN trackings : \E b \in DOMAIN commitments \ {a} :
            /\ trackings[a].allocations /= <<>>
            /\ b \in DOMAIN balances /\ balances[b] > 0
            /\ b \in DOMAIN trackings

\* C32: the stored balance of a commitment is never negative; an allocate
\* that succeeds was called with 0 < amount <= balance; an allocate or
\* deallocate called with amount <= 0 does not succeed and changes no balance,
\* total_allocated or history, and where the call gets as far as the amount
\* (the caller is authorized, the commitment is stored and, for allocate,
\* active) it fails with InvalidAmount.
C32_BalanceNeverNegative ==
    /\ [](\A c \in CommitmentIds : get_commitment_balance(c) >= 0)
    /\ [][(result'.op = "allocate" /\ result'.err = "ok") =>
            \A a \in Address, c \in DOMAIN commitments, p \in Pools, amt \in SignedAmounts :
                allocate(a, c, p, amt)
                => 0 < amt /\ amt <= get_commitment_balance(c)]_vars
    /\ [][result'.op \in {"allocate", "deallocate"} =>
            \A amt \in {n \in SignedAmounts : n <= 0} :
                \A a \in Address, c \in CommitmentIds, p \in Pools :
                    (allocate(a, c, p, amt) \/ deallocate(a, c, p, amt))
                    => /\ result'.err /= "ok"
                       /\ UNCHANGED <<balances, trackings>>
                       /\ (/\ is_authorized_allocator(a)
                           /\ has_commitment(c)
                           /\ \/ result'.op = "deallocate"
                              \/ get_commitment(c).status = "active")
                            => result'.err = "InvalidAmount"]_vars

\* C32 witness: an allocate has failed with InvalidAmount (its amount was 0 or
\* negative) on an active commitment whose balance an earlier allocate took
\* down to 0.
C32_Witness ==
    /\ result.op = "allocate"
    /\ result.err = "InvalidAmount"
    /\ \E c \in DOMAIN commitments :
            /\ get_commitment(c).status = "active"
            /\ c \in DOMAIN balances /\ balances[c] = 0
            /\ get_allocation_tracking(c).total_allocated > 0

\* balance + total_allocated of commitment c
Aggregate(c) ==
    get_commitment_balance(c) + get_allocation_tracking(c).total_allocated

\* C33: balance + total_allocated of a commitment is conserved: allocate leaves
\* it as it was and so does every deallocate, so that in every reachable state
\* it is what it was before the first allocation.
C33_Conservation ==
    [][\A c \in CommitmentIds : Aggregate(c)' = Aggregate(c)]_vars

PositiveAmounts == {n \in SignedAmounts : n > 0}

\* C34: deallocate does not ask for an active commitment: called by an
\* authorized caller with amount > 0 on a stored commitment of any status it
\* returns normally, unless the asset contract traps (TransferFailed), and it
\* fails with InactiveCommitment exactly when the id is not stored (a
\* deallocate step with another outcome is not such a call).  In every state a
\* deallocate of 1 that returns normally is possible for such a caller and
\* commitment, as far as the model's bound on the balances allows.
C34_DeallocateAnyStatus ==
    /\ [][(result'.op = "deallocate" /\ result'.err \notin {"ok", "TransferFailed"}) =>
            \A a \in Address :
                is_authorized_allocator(a)
                => \A c \in DOMAIN commitments, p \in Pools, amt \in PositiveAmounts :
                      ~deallocate(a, c, p, amt)]_vars
    /\ [][(result'.op = "deallocate" /\ result'.err /= "InactiveCommitment") =>
            \A a \in Address :
                is_authorized_allocator(a)
                => \A c \in CommitmentIds \ DOMAIN commitments, p \in Pools,
                      amt \in PositiveAmounts :
                      ~deallocate(a, c, p, amt)]_vars
    /\ [](\A a \in Address :
            is_authorized_allocator(a)
            => \A c \in DOMAIN commitments :
                  BalanceSum(DOMAIN balances) + 1 <= MaxBalance
                  => ENABLED (deallocate(a, c, "POOL", 1) /\ result'.err = "ok"))

\* C34 witness: a deallocate has returned normally on storage whose only
\* commitment is settled, violated or exited early; its balance is positive.
C34_Witness ==
    /\ result.op = "deallocate"
    /\ result.err = "ok"
    /\ \E c \in CommitmentIds :
            /\ DOMAIN commitments = {c}
            /\ get_commitment(c).status \in Statuses \ {"active"}
            /\ get_commitment_balance(c) > 0

====
